---- MODULE Spec2Model ----
(***************************************************************************)
(* Billing core of DocVision: the SQLite store (src/core/db.py), the       *)
(* subscription / credit ledger service (src/billing/subscription_service) *)
(* and the order service (src/billing/order_service), with the request     *)
(* handlers and scheduler jobs that call them.                             *)
(*                                                                         *)
(* Every coroutine is a task with a program counter; one action is one     *)
(* await on the database (statement + commit flag), so that tasks          *)
(* interleave exactly where the event loop may switch.  Each               *)
(* DatabaseConnection is its own SQLite connection: reads see the          *)
(* committed database, the first uncommitted write takes SQLite's single   *)
(* writer lock, commit publishes, rollback / close discards.               *)
(*                                                                         *)
(* Time is an integer number of days.                                      *)
(***************************************************************************)
EXTENDS Integers, Sequences, FiniteSets, TLC

VARIABLES
    clock,      \* datetime.utcnow(), in days
    db,         \* the committed database: tables subscriptions,
                \* ai_processing_operations, orders, payments
    work,       \* the writer's uncommitted view (equals db when nobody writes)
    lock,       \* the connection holding SQLite's writer lock, or None
    task        \* per coroutine: program counter, locals, outcome

vars == <<clock, db, work, lock, task>>

-----------------------------------------------------------------------------
(* Bounds of the model *)

MaxTimeSpend == 8      \* the clock's range where only the trial's expiry matters
MaxTimeLedger == 1     \* the clock's range where the daily job's window matters
MaxExpiresAt == 31     \* activation starts only while the expiry is below this
MaxOrders == 2         \* orders an account may place
MaxTimeOrders == 2     \* the clock's range where an order's expiry matters
MaxLedger == 3         \* ledger rows present when an operation may still start
MaxTimePlan == 31      \* the clock's range where a paid month's expiry matters
MaxLedgerRerun == 4    \* ledger rows present when the daily job may still run again
MaxTimeMonthly == 40   \* the clock's range where the monthly job's period matters
MaxDeliveries == 3     \* payment rows present when the provider still repeats a confirmation

-----------------------------------------------------------------------------
(* Program constants *)

TrialDays == 7
MonthDays == 30

FreeTrial == "free-trial"
Plans == {FreeTrial, "standard", "pro"}

PLANS_CONFIG ==
    [p \in Plans |->
        CASE p = FreeTrial  -> [monthly_regeneration |-> 30,  daily_regeneration |-> 0]
          [] p = "standard" -> [monthly_regeneration |-> 200, daily_regeneration |-> 5]
          [] p = "pro"      -> [monthly_regeneration |-> 300, daily_regeneration |-> 10]]

\* PLANS_CONFIG.get(plan, {}).get("monthly_regeneration", 0)
MonthlyRegeneration(plan) ==
    IF plan \in Plans THEN PLANS_CONFIG[plan].monthly_regeneration ELSE 0

Users == {"u1"}
None == "none"
Null == -1          \* SQL NULL in a timestamp column

\* now + relativedelta(months=m), with a month of MonthDays days
AddMonths(t, m) == t + m * MonthDays

-----------------------------------------------------------------------------
(* Tasks *)

\* Requests whose response the model keeps for inspection ...
Spenders == {"sp1", "sp2"}
Deliveries == {"dl1", "dl2"}
Observed == Spenders \cup Deliveries
\* ... and the same requests where only their effect on the database is kept
Users1 == {"use1"}
Buyers == {"buy1", "buy2"}
\* Callers of one service method whose arguments are kept with the outcome
Payers == {"pay1"}
Shoppers == {"shop1"}
Checkers == {"chk1"}
Callers == Payers \cup Shoppers \cup Checkers
Tasks == Spenders \cup Users1 \cup Deliveries \cup Buyers \cup Callers
            \cup {"reg", "chk", "act", "daily", "daily2", "monthly", "cancel", "fail",
                  "sweep", "unsub"}

Idle == [pc |-> "idle", user |-> None, amount |-> 0, sub_id |-> 0,
         plan |-> None, months |-> 0, order |-> 0, granted |-> FALSE,
         reset_counter |-> FALSE, new_expires_at |-> Null,
         now |-> Null, rows |-> <<>>, batch |-> {},
         raised |-> None, res |-> None]

Startable(t) == task[t].pc \in {"idle", "done"}

\* The coroutine, whose locals are `locals`, returns or raises: its connection
\* is closed (__aexit__).
FinishWith(t, locals, raised, res) ==
    task' = [task EXCEPT ![t] =
                IF t \in Callers
                  THEN [locals EXCEPT !.pc = "done", !.raised = raised, !.res = res]
                ELSE IF t \in Observed
                  THEN [Idle EXCEPT !.pc = "done", !.raised = raised, !.res = res,
                                    !.order = locals.order, !.granted = locals.granted]
                  ELSE Idle]

Finish(t, raised, res) == FinishWith(t, task[t], raised, res)

\* A scheduler job returns; nobody receives its outcome (it is logged).  The
\* scheduler remembers when the job ran: it starts a job once per trigger.
JobDone(t, now) ==
    task' = [task EXCEPT ![t] = [Idle EXCEPT !.now = now]]

Scheduled(t) == task[t].pc = "idle" /\ task[t].now < clock

-----------------------------------------------------------------------------
(* DatabaseConnection *)

\* What connection t reads: its own uncommitted writes, else the committed rows.
View(t) == IF lock = t THEN work ELSE db

\* A statement that writes succeeds: it takes the writer lock (waiting while
\* another connection holds it) and, with commit=True, commits.
ExecOk(t, new, commit) ==
    /\ lock \in {None, t}
    /\ IF commit
         THEN db' = new /\ work' = new /\ lock' = None
         ELSE work' = new /\ lock' = t /\ UNCHANGED db

\* connection.rollback(), and what closing the connection does to an open
\* transaction.
Rollback(t) ==
    IF lock = t
      THEN work' = db /\ lock' = None /\ UNCHANGED db
      ELSE UNCHANGED <<db, work, lock>>

\* A statement fails (sqlite error: busy timeout, constraint, I/O):
\* execute_one / execute_many roll back only when they were to commit.
ExecFail(t, commit) ==
    IF commit THEN Rollback(t) ELSE UNCHANGED <<db, work, lock>>

\* connection.commit()
Commit(t) ==
    IF lock = t
      THEN db' = work /\ lock' = None /\ UNCHANGED work
      ELSE UNCHANGED <<db, work, lock>>

LedgerRow(sid, amount, positive) ==
    [subscription_id |-> sid, amount |-> amount, is_positive |-> positive,
     created_at |-> clock]

InsertLedger(d, row) ==
    [d EXCEPT !.ai_processing_operations = Append(@, row)]

HasRoom == Len(db.ai_processing_operations) < MaxLedger

\* SELECT SUM(amount) FROM ai_processing_operations
\*  WHERE subscription_id = sid AND is_positive = positive
RECURSIVE SumOperations(_, _, _)
SumOperations(ops, sid, positive) ==
    IF ops = <<>> THEN 0
    ELSE (IF Head(ops).subscription_id = sid /\ Head(ops).is_positive = positive
            THEN Head(ops).amount ELSE 0)
         + SumOperations(Tail(ops), sid, positive)

-----------------------------------------------------------------------------
(* SubscriptionService.create_subscription(user_id, plan), months left at None *)

\* expires_at for a new subscription
CreateExpiresAt(plan, months) ==
    IF plan = FreeTrial THEN clock + TrialDays
    ELSE IF months > 0 THEN AddMonths(clock, months)
    ELSE Null

\* uuid.uuid4(): an id no ledger row carries yet
FreshId(d) == Len(d.ai_processing_operations) + 1

\* First statement: the grant row, committed on its own (commit defaults to True).
CreateInsertOperation(t, u, plan) ==
    /\ t = "reg" /\ Startable(t) /\ HasRoom
    /\ UNCHANGED clock
    /\ \/ /\ ExecOk(t, InsertLedger(View(t),
                        LedgerRow(FreshId(View(t)), MonthlyRegeneration(plan), TRUE)), TRUE)
          /\ task' = [task EXCEPT ![t] = [Idle EXCEPT !.pc = "create_sub", !.user = u,
                                          !.plan = plan, !.sub_id = FreshId(View(t))]]
       \/ /\ ExecFail(t, TRUE)
          /\ Finish(t, "DbError", "HTTP400")

\* The registration handler creates the subscription of the account it has
\* just created.
CreateForNewAccount(t, u, plan) ==
    /\ u \notin DOMAIN db.subscriptions
    /\ CreateInsertOperation(t, u, plan)

NewSubscription(id, plan) ==
    [id |-> id, plan |-> plan, status |-> "active",
     ai_processing |-> MonthlyRegeneration(plan),
     last_monthly_regen |-> clock, last_daily_regen |-> Null,
     started_at |-> clock, expires_at |-> CreateExpiresAt(plan, 0),
     cancelled_at |-> Null]

\* Second statement: the subscription row, committed; user_id is UNIQUE.
CreateInsertSubscription(t) ==
    LET u == task[t].user
        v == View(t) IN
    /\ task[t].pc = "create_sub"
    /\ UNCHANGED clock
    /\ \/ /\ u \notin DOMAIN v.subscriptions
          /\ ExecOk(t, [v EXCEPT !.subscriptions =
                           @ @@ (u :> NewSubscription(task[t].sub_id, task[t].plan))], TRUE)
          /\ Finish(t, None, "ok")
       \/ /\ ExecFail(t, TRUE)
          /\ Finish(t, "DbError", "HTTP400")

-----------------------------------------------------------------------------
(* SubscriptionService.save_ai_usage_operation(user_id, amount): spend *)

SpendAmounts == {1, 29}

\* What the caller receives when `raised` is raised inside the try block:
\* `except Exception` catches the HTTPException too, rolls back, and raises
\* HTTP 500 from a message that reads sub_id, which is unbound when
\* fetch_one itself raised.
SpendReport(raised) ==
    IF raised = "NotFound" THEN "UnboundLocalError" ELSE "HTTP500"

\* commit flag of the INSERT and of the UPDATE
SpendInsertCommitDefault == TRUE

SpendInsertCommit == FALSE
SpendUpdateCommit == FALSE

\* fetch_one of the subscription row, then the status and balance checks.
SpendFetch(t, u, amount) ==
    LET v == View(t)
        raised ==
            IF u \notin DOMAIN v.subscriptions THEN "NotFound"
            ELSE IF v.subscriptions[u].status # "active" THEN "Forbidden"
            ELSE IF v.subscriptions[u].ai_processing < amount THEN "InsufficientBalance"
            ELSE None IN
    /\ t \in Spenders \cup Users1 /\ Startable(t) /\ HasRoom
    /\ UNCHANGED <<clock, db, work, lock>>
    /\ IF raised = None
         THEN task' = [task EXCEPT ![t] = [Idle EXCEPT !.pc = "spend_insert", !.user = u,
                            !.amount = amount, !.sub_id = v.subscriptions[u].id]]
         ELSE Finish(t, raised, SpendReport(raised))

\* The handler of a failure inside the try block: rollback, raise HTTP 500.
SpendAbort(t, at) ==
    /\ Rollback(t)
    /\ Finish(t, at, SpendReport(at))

\* INSERT INTO ai_processing_operations (..., is_positive = 0), commit=False
SpendInsert(t) ==
    /\ task[t].pc = "spend_insert"
    /\ UNCHANGED clock
    /\ \/ /\ ExecOk(t, InsertLedger(View(t),
                        LedgerRow(task[t].sub_id, task[t].amount, FALSE)),
                    SpendInsertCommit)
          /\ task' = [task EXCEPT ![t].pc = "spend_update"]
       \/ SpendAbort(t, "InsertFailed")

\* UPDATE subscriptions SET ai_processing = ai_processing - ? WHERE id = ?
SpendUpdate(t) ==
    LET u == task[t].user
        v == View(t) IN
    /\ task[t].pc = "spend_update"
    /\ UNCHANGED clock
    /\ \/ /\ ExecOk(t, [v EXCEPT !.subscriptions[u].ai_processing = @ - task[t].amount],
                    SpendUpdateCommit)
          /\ task' = [task EXCEPT ![t].pc = "spend_commit"]
       \/ SpendAbort(t, "UpdateFailed")

\* await db.connection.commit()
SpendCommit(t) ==
    /\ task[t].pc = "spend_commit"
    /\ UNCHANGED clock
    /\ \/ Commit(t) /\ Finish(t, None, "ok")
       \/ SpendAbort(t, "CommitFailed")

-----------------------------------------------------------------------------
(* SubscriptionService.check_subscription_active(user_id) *)

\* get_subscription, then the status and expiry tests.  (raise_http is left
\* at True, as the caller in regos.py leaves it: "not active" is HTTP 404
\* where raise_http=False would return False.)  A checker's time of call is
\* kept with its arguments.
CheckActiveRead(t, u) ==
    LET v == View(t)
        locals == [Idle EXCEPT !.user = u,
                               !.now = IF t \in Checkers THEN clock ELSE Null] IN
    /\ t \in {"chk"} \cup Checkers /\ Startable(t)
    /\ UNCHANGED <<clock, db, work, lock>>
    /\ IF u \notin DOMAIN v.subscriptions
         THEN FinishWith(t, locals, "NotFound", "HTTP404")
       ELSE IF v.subscriptions[u].status # "active"
         THEN FinishWith(t, locals, "NotActive", "HTTP404")
       ELSE IF v.subscriptions[u].expires_at # Null /\ v.subscriptions[u].expires_at < clock
         THEN task' = [task EXCEPT ![t] = [locals EXCEPT !.pc = "chk_expire"]]
       ELSE FinishWith(t, locals, None, "ok")

\* The expiry found and reported, but not written
CheckActiveNoExpire(t) ==
    /\ task[t].pc = "chk_expire"
    /\ UNCHANGED <<clock, db, work, lock>>
    /\ Finish(t, "Expired", "HTTP404")

\* update_subscription(user_id, SubscriptionUpdate(status='expired'))
CheckActiveExpire(t) ==
    LET u == task[t].user
        v == View(t) IN
    /\ task[t].pc = "chk_expire"
    /\ UNCHANGED clock
    /\ \/ /\ ExecOk(t, [v EXCEPT !.subscriptions[u].status = "expired"], TRUE)
          /\ Finish(t, "Expired", "HTTP404")
       \/ /\ ExecFail(t, TRUE)
          /\ Finish(t, "DbError", "HTTP400")

\* update_subscription(user_id, SubscriptionUpdate(status=new)) called on its
\* own: UPDATE subscriptions SET status = ? [, cancelled_at = ?] WHERE user_id = ?
UpdateSubscription(t, u, new) ==
    LET v == View(t) IN
    /\ t = "unsub" /\ Startable(t)
    /\ UNCHANGED <<clock, task>>
    /\ \/ ExecOk(t, IF u \in DOMAIN v.subscriptions
                       THEN [v EXCEPT !.subscriptions[u].status = new,
                                      !.subscriptions[u].cancelled_at =
                                          IF new = "cancelled" THEN clock ELSE @]
                       ELSE v,
                 TRUE)
       \/ ExecFail(t, TRUE)

\* The user cancels the subscription.
UserCancel(t, u) == UpdateSubscription(t, u, "cancelled")

-----------------------------------------------------------------------------
(* The clock *)

Tick(d, max) ==
    /\ clock + d <= max
    /\ clock' = clock + d
    /\ UNCHANGED <<db, work, lock, task>>

TickDay == Tick(1, MaxTimeLedger)

\* Time passes until a trial started before is over.
TickPastTrial == Tick(TrialDays + 1, MaxTimeSpend)

\* Time passes until a month paid for before is over.
TickPastMonth == Tick(MonthDays + 1, MaxTimePlan)

-----------------------------------------------------------------------------
(* SubscriptionService.activate_subscription(user_id, plan, months) *)

PaidPlans == {"standard", "pro"}

\* The new expiry, from the row get_subscription returned
NewExpiresAt(sub, months) ==
    IF sub.plan = FreeTrial \/ sub.status = "expired"
      THEN AddMonths(clock, months)
    ELSE IF sub.expires_at # Null /\ sub.expires_at > clock
      THEN AddMonths(sub.expires_at, months)
    ELSE AddMonths(clock, months)

\* get_subscription on a connection of its own, then the expiry and the
\* reset-or-add decision, both taken from that read.
ActivateRead(t, u, plan, months) ==
    LET v == View(t) IN
    /\ UNCHANGED <<clock, db, work, lock>>
    /\ IF u \notin DOMAIN v.subscriptions
         THEN Finish(t, "NotFound", "HTTP404")
       ELSE IF MonthlyRegeneration(plan) <= 0
         THEN Finish(t, "InvalidPlan", "HTTP400")
       ELSE task' = [task EXCEPT ![t] = [Idle EXCEPT !.pc = "act_update", !.user = u,
                        !.plan = plan, !.months = months, !.order = task[t].order,
                        !.reset_counter = (v.subscriptions[u].ai_processing < 0),
                        !.new_expires_at = NewExpiresAt(v.subscriptions[u], months)]]

\* POST /billing/subscription/activate: the administrator's activation
AdminActivate(t, u, plan, months) ==
    /\ t = "act" /\ Startable(t) /\ HasRoom
    /\ u \in DOMAIN db.subscriptions => db.subscriptions[u].expires_at < MaxExpiresAt
    /\ ActivateRead(t, u, plan, months)

ActivatedRow(sub, plan, amount, reset, expires) ==
    [sub EXCEPT !.plan = plan, !.status = "active", !.expires_at = expires,
                !.ai_processing = IF reset THEN amount ELSE @ + amount,
                !.cancelled_at = Null]

\* UPDATE subscriptions SET plan, status, expires_at, ai_processing ...
\* WHERE user_id = ?, commit=False, raise_http=False: a failure is swallowed
\* and the coroutine goes on.
ActivateUpdate(t) ==
    LET u == task[t].user
        v == View(t) IN
    /\ task[t].pc = "act_update"
    /\ UNCHANGED clock
    /\ task' = [task EXCEPT ![t].pc = "act_commit"]
    /\ \/ ExecOk(t, [v EXCEPT !.subscriptions[u] =
                        ActivatedRow(@, task[t].plan, MonthlyRegeneration(task[t].plan),
                                     task[t].reset_counter, task[t].new_expires_at)],
                 FALSE)
       \/ ExecFail(t, FALSE)

\* await db.connection.commit(), then the row is fetched again
ActivateCommit(t) ==
    /\ task[t].pc = "act_commit"
    /\ UNCHANGED clock
    /\ \/ /\ Commit(t)
          /\ task' = [task EXCEPT ![t].pc = "act_insert",
                                  ![t].granted = (lock = t),
                                  ![t].sub_id = db'.subscriptions[task[t].user].id]
       \/ /\ Rollback(t)
          /\ Finish(t, "CommitFailed", "HTTP500")

\* INSERT INTO ai_processing_operations, commit=True, raise_http=False
ActivateInsert(t) ==
    /\ task[t].pc = "act_insert"
    /\ UNCHANGED clock
    /\ Finish(t, None, "ok")
    /\ \/ ExecOk(t, InsertLedger(View(t),
                    LedgerRow(task[t].sub_id, MonthlyRegeneration(task[t].plan), TRUE)),
                 TRUE)
       \/ ExecFail(t, TRUE)

-----------------------------------------------------------------------------
(* OrderService *)

PRICING == [p \in PaidPlans |-> IF p = "standard" THEN 1000 ELSE 1500]

\* calculate_order_amount(plan, months): the discount in percent, then the total
\* (the prices are multiples of 100, so the product is a whole amount and
\* round(..., 2) leaves it as it is)
NoDiscount(months) == 0

Discount(months) ==
    IF months >= 12 THEN 20
    ELSE IF months >= 6 THEN 10
    ELSE IF months >= 3 THEN 5
    ELSE 0

calculate_order_amount(plan, months) ==
    ((IF plan \in PaidPlans THEN PRICING[plan] ELSE 0) * months * (100 - Discount(months)))
        \div 100

OrderMonths == {1}
MaxMonths == 24                 \* OrderCreate.months: ge=1, le=24
ORDER_EXPIRATION_DAYS == 1      \* ORDER_EXPIRATION_HOURS = 24

\* SELECT * FROM orders WHERE id = ?: whether there is a row, and the row
OrderExists(d, o) == o \in 1..Len(d.orders)
get_order(d, o) == d.orders[o]

HasOrderRoom == Len(db.orders) < MaxOrders

\* The route POST /billing/orders reads the account's subscription, and
\* create_order refuses a plan other than the plan of a paid subscription.
CreateOrderCheck(t, u, plan, months) ==
    LET v == View(t)
        subscription_plan ==
            IF u \in DOMAIN v.subscriptions THEN v.subscriptions[u].plan ELSE "None" IN
    /\ t \in Buyers \cup Shoppers /\ Startable(t) /\ HasOrderRoom
    /\ UNCHANGED <<clock, db, work, lock>>
    /\ IF subscription_plan # FreeTrial /\ plan # subscription_plan
         THEN FinishWith(t, [Idle EXCEPT !.user = u, !.plan = plan, !.months = months],
                         "PlanChangeUnavailable", "HTTP400")
         ELSE task' = [task EXCEPT ![t] = [Idle EXCEPT !.pc = "order_cancel", !.user = u,
                            !.plan = plan, !.months = months]]

\* commit flag of the UPDATE that cancels the pending orders
CancelPendingCommitDefault == TRUE

CancelPendingCommit == FALSE

\* UPDATE orders SET status = 'cancelled' WHERE user_id = ? AND status = 'pending'
CreateOrderCancelPending(t) ==
    LET v == View(t)
        u == task[t].user IN
    /\ task[t].pc = "order_cancel"
    /\ UNCHANGED clock
    /\ \/ /\ ExecOk(t, [v EXCEPT !.orders =
                          [o \in DOMAIN @ |->
                              IF @[o].user_id = u /\ @[o].status = "pending"
                                THEN [@[o] EXCEPT !.status = "cancelled"]
                                ELSE @[o]]],
                    CancelPendingCommit)
          /\ task' = [task EXCEPT ![t].pc = "order_insert"]
       \/ /\ Rollback(t)
          /\ Finish(t, "DbError", "HTTP400")

NewOrder(u, plan, months) ==
    [user_id |-> u, plan |-> plan, months |-> months,
     amount |-> calculate_order_amount(plan, months), status |-> "pending",
     payment_transaction_id |-> None, expires_at |-> clock + ORDER_EXPIRATION_DAYS]

\* INSERT INTO orders (... 'pending' ...), commit=True, on the same connection
CreateOrderInsert(t) ==
    LET v == View(t) IN
    /\ task[t].pc = "order_insert"
    /\ UNCHANGED clock
    /\ \/ /\ ExecOk(t, [v EXCEPT !.orders =
                          Append(@, NewOrder(task[t].user, task[t].plan, task[t].months))],
                    TRUE)
          /\ Finish(t, None, "ok")
       \/ /\ Rollback(t)
          /\ Finish(t, "DbError", "HTTP400")

\* `if order.status == 'paid'`, the guard against a second confirmation
NeverPaid(order) == FALSE

IsPaid(order) == order.status = "paid"

\* mark_order_paid, first half: get_order and the checks on what it returned;
\* `locals` holds the arguments order_id and amount.  `if amount and ...`
\* skips the amount test for an amount of 0 (and of None).
MarkPaidRead(t, locals) ==
    LET order == get_order(View(t), locals.order) IN
    /\ UNCHANGED <<clock, db, work, lock>>
    /\ IF ~OrderExists(View(t), locals.order)
         THEN FinishWith(t, locals, "OrderNotFound", "HTTP404")
       ELSE IF IsPaid(order)
         THEN FinishWith(t, locals, "AlreadyPaid", "HTTP400")
       ELSE IF order.status \in {"cancelled", "expired"}
         THEN FinishWith(t, locals, "NotPayable", "HTTP400")
       ELSE IF locals.amount # 0 /\ locals.amount # order.amount
         THEN FinishWith(t, locals, "AmountMismatch", "HTTP400")
       ELSE task' = [task EXCEPT ![t] = [locals EXCEPT !.pc = "paid_update"]]

\* ... called by click_complete after the payment row is written
MarkPaidGetOrder(t) ==
    /\ task[t].pc = "paid_read"
    /\ MarkPaidRead(t, task[t])

\* ... called on its own: mark_order_paid(order_id, transaction_id, provider, amount)
MarkPaidDirect(t, o, amount) ==
    /\ t \in Payers /\ Startable(t)
    /\ MarkPaidRead(t, [Idle EXCEPT !.order = o, !.amount = amount])

\* UPDATE orders SET status = 'paid', ... WHERE id = ?  (commit=True)
SetOrderStatus(d, o, status, txn) ==
    IF OrderExists(d, o)
      THEN [d EXCEPT !.orders[o].status = status, !.orders[o].payment_transaction_id = txn]
      ELSE d

MarkPaidUpdate(t) ==
    /\ task[t].pc = "paid_update"
    /\ UNCHANGED clock
    /\ \/ /\ ExecOk(t, SetOrderStatus(View(t), task[t].order, "paid", "tx"), TRUE)
          /\ IF t \in Deliveries
               THEN task' = [task EXCEPT ![t].pc = "activate"]
               ELSE Finish(t, None, "ok")
       \/ /\ ExecFail(t, TRUE)
          /\ Finish(t, "DbError", "HTTP400")

\* mark_order_failed(order_id): only a paid order is refused
MarkFailedGetOrder(t, o) ==
    LET order == get_order(View(t), o) IN
    /\ t = "fail" /\ Startable(t)
    /\ UNCHANGED <<clock, db, work, lock>>
    /\ IF ~OrderExists(View(t), o)
         THEN Finish(t, "NotFound", "HTTP404")
       ELSE IF order.status = "paid"
         THEN Finish(t, "AlreadyPaid", "HTTP400")
       ELSE task' = [task EXCEPT ![t] = [Idle EXCEPT !.pc = "failed_update", !.order = o]]

\* UPDATE orders SET status = 'failed', ... WHERE id = ?
MarkFailedUpdate(t) ==
    /\ task[t].pc = "failed_update"
    /\ UNCHANGED clock
    /\ Finish(t, None, "ok")
    /\ \/ ExecOk(t, SetOrderStatus(View(t), task[t].order, "failed", None), TRUE)
       \/ ExecFail(t, TRUE)

\* cancel_order(order_id): get_order and the checks
CancelGetOrder(t, o) ==
    LET order == get_order(View(t), o) IN
    /\ t = "cancel" /\ Startable(t)
    /\ UNCHANGED <<clock, db, work, lock>>
    /\ IF ~OrderExists(View(t), o)
         THEN Finish(t, "NotFound", "HTTP404")
       ELSE IF order.status = "paid"
         THEN Finish(t, "AlreadyPaid", "HTTP400")
       ELSE IF order.status \in {"cancelled", "expired"}
         THEN Finish(t, "AlreadyClosed", "HTTP400")
       ELSE task' = [task EXCEPT ![t] = [Idle EXCEPT !.pc = "cancel_update", !.order = o]]

\* UPDATE orders SET status = 'cancelled' WHERE id = ?
CancelUpdate(t) ==
    LET v == View(t)
        o == task[t].order IN
    /\ task[t].pc = "cancel_update"
    /\ UNCHANGED clock
    /\ Finish(t, None, "ok")
    /\ \/ ExecOk(t, [v EXCEPT !.orders[o].status = "cancelled"], TRUE)
       \/ ExecFail(t, TRUE)

\* create_order, line 45: the amount of the order about to be written
QuoteAmount(t) ==
    /\ task[t].pc = "quote"
    /\ UNCHANGED <<clock, db, work, lock>>
    /\ task' = [task EXCEPT ![t].pc = "quoted",
                            ![t].amount = calculate_order_amount(task[t].plan, task[t].months)]

\* expire_old_orders(): UPDATE orders SET status = 'expired'
\*                      WHERE status = 'pending' AND expires_at < now
ExpireOldOrders(t) ==
    LET v == View(t) IN
    /\ t = "sweep" /\ Startable(t)
    /\ UNCHANGED <<clock, task>>
    /\ \/ ExecOk(t, [v EXCEPT !.orders =
                        [o \in DOMAIN @ |->
                            IF @[o].status = "pending" /\ @[o].expires_at < clock
                              THEN [@[o] EXCEPT !.status = "expired"]
                              ELSE @[o]]],
                 TRUE)
       \/ ExecFail(t, TRUE)

-----------------------------------------------------------------------------
(* POST /click/complete: one delivery of the provider's payment confirmation *)

\* get_order, the (ineffective) existence test, the amount test
CompleteGetOrder(t, o, amount) ==
    LET order == get_order(View(t), o) IN
    /\ t \in Deliveries /\ task[t].pc = "idle"
    /\ UNCHANGED <<clock, db, work, lock>>
    /\ IF ~OrderExists(View(t), o)
         THEN Finish(t, "AttributeError", "HTTP500")
       ELSE IF amount # order.amount
         THEN Finish(t, "IncorrectAmount", "error -2")
       ELSE task' = [task EXCEPT ![t] = [Idle EXCEPT !.pc = "payment", !.order = o,
                            !.user = order.user_id, !.plan = order.plan,
                            !.months = order.months, !.amount = order.amount]]

\* PaymentService.create_payment: INSERT INTO payments, commit=True,
\* raise_http=False; no row inserted makes the handler raise 500
CompleteCreatePayment(t) ==
    LET v == View(t) IN
    /\ task[t].pc = "payment"
    /\ UNCHANGED clock
    /\ \/ /\ ExecOk(t, [v EXCEPT !.payments =
                          Append(@, [user_id |-> task[t].user, amount |-> task[t].amount])],
                    TRUE)
          /\ task' = [task EXCEPT ![t].pc = "paid_read"]
       \/ /\ ExecFail(t, TRUE)
          /\ Finish(t, "PaymentFailed", "HTTP500")

\* activate_subscription(user_id, order.plan, order.months)
CompleteActivate(t) ==
    /\ task[t].pc = "activate"
    /\ ActivateRead(t, task[t].user, task[t].plan, task[t].months)

-----------------------------------------------------------------------------
(* Scheduler jobs: regenerate_daily_ai_processing, regenerate_monthly_ai_processing *)

\* DatabaseConnection opens SQLite without detect_types, so a TIMESTAMP column
\* of a fetched row is text.  The jobs compare such a column with the datetime
\* `now` (or add a relativedelta to it) in Python, which raises TypeError
\* unless the column is NULL and the `x and ...` guard short-circuits.
ComparisonRaises(stored) == stored # Null

\* SELECT SUM(amount) ... WHERE is_positive = 0 AND created_at > since, for sid
RECURSIVE UsageSince(_, _, _)
UsageSince(ops, sid, since) ==
    IF ops = <<>> THEN 0
    ELSE (IF /\ Head(ops).subscription_id = sid
             /\ ~Head(ops).is_positive
             /\ Head(ops).created_at > since
            THEN Head(ops).amount ELSE 0)
         + UsageSince(Tail(ops), sid, since)

\* PLANS_CONFIG.get(plan, {}).get("daily_regeneration", 0)
DailyRegeneration(plan) ==
    IF plan \in Plans THEN PLANS_CONFIG[plan].daily_regeneration ELSE 0

\* The loop body for one row: the credits to grant, 0 when the row is skipped
IncrementValue(row, total_daily_usage) ==
    IF row.plan = FreeTrial THEN 0
    ELSE IF DailyRegeneration(row.plan) <= 0 THEN 0
    ELSE IF total_daily_usage = 0 THEN 0
    ELSE IF total_daily_usage >= DailyRegeneration(row.plan)
      THEN DailyRegeneration(row.plan)
    ELSE DailyRegeneration(row.plan) - total_daily_usage

\* SELECT id, plan, expires_at, last_daily_regen FROM subscriptions
DailyEnter(t) ==
    /\ UNCHANGED <<clock, db, work, lock>>
    /\ IF DOMAIN View(t).subscriptions = {}
         THEN JobDone(t, clock)
         ELSE task' = [task EXCEPT ![t] = [Idle EXCEPT !.pc = "daily_usage",
                            !.now = clock, !.rows = View(t).subscriptions]]

\* The scheduler's trigger starts the job
DailyFetchSubscriptions(t) ==
    /\ t = "daily" /\ Scheduled(t) /\ HasRoom
    /\ DailyEnter(t)

\* The job started once more on a day on which it has already run (a second
\* worker process has its own scheduler with the same trigger)
DailyRerun(t) ==
    /\ t = "daily2" /\ Scheduled(t)
    /\ task["daily"].pc = "idle" /\ task["daily"].now = clock
    /\ Len(db.ai_processing_operations) < MaxLedgerRerun
    /\ DailyEnter(t)

\* The usage query (fetch_all raises 404 on an empty result), then the loop
\* over the rows that fills the batches.
DailyFetchUsage(t) ==
    LET ops == View(t).ai_processing_operations
        rows == task[t].rows
        day_ago == task[t].now - 1
        used == {o \in 1..Len(ops) : ~ops[o].is_positive /\ ops[o].created_at > day_ago}
        batch == {[user |-> u,
                   increment_value |->
                       IncrementValue(rows[u], UsageSince(ops, rows[u].id, day_ago))]
                  : u \in DOMAIN rows} IN
    /\ task[t].pc = "daily_usage"
    /\ UNCHANGED <<clock, db, work, lock>>
    /\ IF used = {}
         THEN JobDone(t, task[t].now)      \* HTTPException(404), caught and logged
       ELSE IF \E u \in DOMAIN rows :
                 \/ ComparisonRaises(rows[u].expires_at)
                 \/ rows[u].plan # FreeTrial /\ ComparisonRaises(rows[u].last_daily_regen)
         THEN JobDone(t, task[t].now)      \* TypeError, caught and logged
       ELSE IF \A b \in batch : b.increment_value = 0
         THEN JobDone(t, task[t].now)
       ELSE task' = [task EXCEPT ![t].pc = "daily_insert",
                                 ![t].batch = {b \in batch : b.increment_value > 0}]

\* The rows of a batch appended to the ledger, in any order
RECURSIVE InsertBatch(_, _, _)
InsertBatch(d, rows, batch) ==
    IF batch = {} THEN d
    ELSE LET b == CHOOSE x \in batch : TRUE IN
         InsertBatch(InsertLedger(d, LedgerRow(rows[b.user].id, b.increment_value, TRUE)),
                     rows, batch \ {b})

\* execute_many(INSERT INTO ai_processing_operations ...), commit=False,
\* raise_http=False.  (The status batch before it is always empty here: a row
\* enters it only through the comparison that raises.)
DailyInsert(t) ==
    /\ task[t].pc = "daily_insert"
    /\ UNCHANGED clock
    /\ task' = [task EXCEPT ![t].pc = "daily_update"]
    /\ \/ ExecOk(t, InsertBatch(View(t), task[t].rows, task[t].batch), FALSE)
       \/ ExecFail(t, FALSE)

\* A balance update that writes the balance the job read plus the grant
DailyUpdateAbsolute(t) ==
    LET v == View(t)
        inc(u) == IF \E b \in task[t].batch : b.user = u
                    THEN (CHOOSE b \in task[t].batch : b.user = u).increment_value
                    ELSE 0 IN
    /\ task[t].pc = "daily_update"
    /\ UNCHANGED clock
    /\ task' = [task EXCEPT ![t].pc = "daily_commit"]
    /\ \/ ExecOk(t, [v EXCEPT !.subscriptions =
                        [u \in DOMAIN @ |->
                            [@[u] EXCEPT !.ai_processing = task[t].rows[u].ai_processing + inc(u)]]],
                 FALSE)
       \/ ExecFail(t, FALSE)

\* execute_many(UPDATE subscriptions SET ai_processing = ai_processing + ?
\* WHERE id = ?), commit=False, raise_http=False
DailyUpdate(t) ==
    LET v == View(t)
        inc(u) == IF \E b \in task[t].batch : b.user = u
                    THEN (CHOOSE b \in task[t].batch : b.user = u).increment_value
                    ELSE 0 IN
    /\ task[t].pc = "daily_update"
    /\ UNCHANGED clock
    /\ task' = [task EXCEPT ![t].pc = "daily_commit"]
    /\ \/ ExecOk(t, [v EXCEPT !.subscriptions =
                        [u \in DOMAIN @ |-> [@[u] EXCEPT !.ai_processing = @ + inc(u)]]],
                 FALSE)
       \/ ExecFail(t, FALSE)

\* await db.connection.commit(); a failure is caught, rolled back and logged
DailyCommit(t) ==
    /\ task[t].pc = "daily_commit"
    /\ UNCHANGED clock
    /\ JobDone(t, task[t].now)
    /\ \/ Commit(t)
       \/ Rollback(t)

\* The monthly job: SELECT ... WHERE status = 'active' AND (expires_at IS NULL
\* OR expires_at > now), then the loop that decides which rows are due.  Its
\* first iteration raises TypeError, at `expires_at < now` or, for a NULL
\* expiry, at `last_regen + relativedelta(months=+1)`: started_at and
\* last_monthly_regen are written by create_subscription and never NULL.
\* The handler rolls back (nothing was written) and logs.
LastRegen(row) ==
    IF row.last_monthly_regen # Null THEN row.last_monthly_regen ELSE row.started_at

\* A monthly job without the period test: every selected row is credited
RegenerateMonthlyUnguarded(t) ==
    LET v == View(t)
        rows == {u \in DOMAIN v.subscriptions :
                    /\ v.subscriptions[u].status = "active"
                    /\ \/ v.subscriptions[u].expires_at = Null
                       \/ v.subscriptions[u].expires_at > clock} IN
    /\ t = "monthly" /\ Scheduled(t)
    /\ UNCHANGED clock
    /\ JobDone(t, clock)
    /\ ExecOk(t, [v EXCEPT !.subscriptions =
                    [u \in DOMAIN @ |->
                        IF u \in rows
                          THEN [@[u] EXCEPT
                                  !.ai_processing = @ + MonthlyRegeneration(v.subscriptions[u].plan),
                                  !.last_monthly_regen = clock]
                          ELSE @[u]]],
              TRUE)

\* A monthly job whose loop does not raise: the rows that are due by the
\* period test are credited and their period restarted
RegenerateMonthlyCredits(t) ==
    LET v == View(t)
        rows == {u \in DOMAIN v.subscriptions :
                    /\ v.subscriptions[u].status = "active"
                    /\ \/ v.subscriptions[u].expires_at = Null
                       \/ v.subscriptions[u].expires_at > clock}
        updates == {u \in rows :
                    /\ clock >= AddMonths(LastRegen(v.subscriptions[u]), 1)
                    /\ MonthlyRegeneration(v.subscriptions[u].plan) > 0} IN
    /\ t = "monthly" /\ Scheduled(t)
    /\ UNCHANGED clock
    /\ JobDone(t, clock)
    /\ ExecOk(t, [v EXCEPT !.subscriptions =
                    [u \in DOMAIN @ |->
                        IF u \in updates
                          THEN [@[u] EXCEPT
                                  !.ai_processing = @ + MonthlyRegeneration(v.subscriptions[u].plan),
                                  !.last_monthly_regen = clock]
                          ELSE @[u]]],
              TRUE)

RegenerateMonthly(t) ==
    LET v == View(t)
        rows == {u \in DOMAIN v.subscriptions :
                    /\ v.subscriptions[u].status = "active"
                    /\ \/ v.subscriptions[u].expires_at = Null
                       \/ v.subscriptions[u].expires_at > clock}
        raises == \E u \in rows :
                    \/ ComparisonRaises(v.subscriptions[u].expires_at)
                    \/ ComparisonRaises(LastRegen(v.subscriptions[u]))
        updates == {u \in rows :
                    /\ clock >= AddMonths(LastRegen(v.subscriptions[u]), 1)
                    /\ MonthlyRegeneration(v.subscriptions[u].plan) > 0} IN
    /\ t = "monthly" /\ Scheduled(t)
    /\ UNCHANGED <<clock, db, work, lock>>
    /\ IF rows = {} \/ raises \/ updates = {}
         THEN JobDone(t, clock)
         ELSE task' = [task EXCEPT ![t] = [Idle EXCEPT !.pc = "monthly_insert",
                            !.now = clock, !.rows = v.subscriptions,
                            !.batch = {[user |-> u, increment_value |->
                                            MonthlyRegeneration(v.subscriptions[u].plan)]
                                       : u \in updates}]]

\* The two statements after the loop, which no run reaches (see above).
\* execute_many(INSERT INTO ai_usage_operations ...), commit=False,
\* raise_http=False: init_db creates no table of that name, the statement
\* fails and the failure is swallowed.
MonthlyInsert(t) ==
    /\ task[t].pc = "monthly_insert"
    /\ UNCHANGED clock
    /\ task' = [task EXCEPT ![t].pc = "monthly_update"]
    /\ ExecFail(t, FALSE)

\* execute_many(UPDATE subscriptions SET ai_processing = ai_processing + ?,
\* last_monthly_regen = ? WHERE id = ?), commit=True, raise_http=False
MonthlyUpdate(t) ==
    LET v == View(t)
        due == {b.user : b \in task[t].batch} IN
    /\ task[t].pc = "monthly_update"
    /\ UNCHANGED clock
    /\ JobDone(t, task[t].now)
    /\ \/ ExecOk(t, [v EXCEPT !.subscriptions =
                        [u \in DOMAIN @ |->
                            IF u \in due
                              THEN [@[u] EXCEPT
                                      !.ai_processing = @ + MonthlyRegeneration(v.subscriptions[u].plan),
                                      !.last_monthly_regen = task[t].now]
                              ELSE @[u]]],
                 TRUE)
       \/ ExecFail(t, TRUE)

-----------------------------------------------------------------------------
Init ==
    /\ clock = 0
    /\ db = [subscriptions |-> <<>>, ai_processing_operations |-> <<>>,
             orders |-> <<>>, payments |-> <<>>]
    /\ work = db
    /\ lock = None
    /\ task = [t \in Tasks |-> Idle]

\* Registration, spending and the lazy expiry check of one account.
NextSpend ==
    \/ \E u \in Users : CreateInsertOperation("reg", u, FreeTrial)
    \/ CreateInsertSubscription("reg")
    \/ \E t \in Spenders, u \in Users, a \in SpendAmounts : SpendFetch(t, u, a)
    \/ \E t \in Spenders : SpendInsert(t)
    \/ \E t \in Spenders : SpendUpdate(t)
    \/ \E t \in Spenders : SpendCommit(t)
    \/ \E u \in Users : CheckActiveRead("chk", u)
    \/ CheckActiveExpire("chk")
    \/ TickPastTrial

SpecSpend == Init /\ [][NextSpend]_vars

\* Every operation that touches a balance or the ledger, on one account.
NextLedger ==
    \/ \E u \in Users, p \in {FreeTrial, "standard"} : CreateForNewAccount("reg", u, p)
    \/ CreateInsertSubscription("reg")
    \/ \E t \in Users1, u \in Users, a \in SpendAmounts : SpendFetch(t, u, a)
    \/ \E t \in Users1 : SpendInsert(t)
    \/ \E t \in Users1 : SpendUpdate(t)
    \/ \E t \in Users1 : SpendCommit(t)
    \/ \E u \in Users, p \in PaidPlans : AdminActivate("act", u, p, 1)
    \/ ActivateUpdate("act")
    \/ ActivateCommit("act")
    \/ ActivateInsert("act")
    \/ DailyFetchSubscriptions("daily")
    \/ DailyFetchUsage("daily")
    \/ DailyInsert("daily")
    \/ DailyUpdate("daily")
    \/ DailyCommit("daily")
    \/ RegenerateMonthly("monthly")
    \/ TickDay

SpecLedger == Init /\ [][NextLedger]_vars

\* The account u1 after registration: a trial subscription, no order yet.
InitOrders ==
    /\ clock = 0
    /\ db = [subscriptions |-> ("u1" :> NewSubscription(1, FreeTrial)),
             ai_processing_operations |-> <<LedgerRow(1, 30, TRUE)>>,
             orders |-> <<>>, payments |-> <<>>]
    /\ work = db
    /\ lock = None
    /\ task = [t \in Tasks |-> Idle]

\* What every delivery goes through once it has started
DeliverySteps ==
    \/ \E t \in Deliveries : CompleteCreatePayment(t)
    \/ \E t \in Deliveries : MarkPaidGetOrder(t)
    \/ \E t \in Deliveries : MarkPaidUpdate(t)
    \/ \E t \in Deliveries : CompleteActivate(t)
    \/ \E t \in Deliveries : ActivateUpdate(t)
    \/ \E t \in Deliveries : ActivateCommit(t)
    \/ \E t \in Deliveries : ActivateInsert(t)

\* The order whose payment the provider confirms, with the amount it reports
ConfirmedOrders == {1}
ConfirmedAmount == calculate_order_amount("standard", 1)

\* The order lifecycle with one buyer and duplicate, concurrent deliveries.
NextOrders ==
    \/ \E u \in Users, m \in OrderMonths : CreateOrderCheck("buy1", u, "standard", m)
    \/ CreateOrderCancelPending("buy1")
    \/ CreateOrderInsert("buy1")
    \/ \E t \in Deliveries, o \in ConfirmedOrders : CompleteGetOrder(t, o, ConfirmedAmount)
    \/ DeliverySteps
    \/ \E o \in 1..MaxOrders : CancelGetOrder("cancel", o)
    \/ CancelUpdate("cancel")
    \/ \E o \in 1..MaxOrders : MarkFailedGetOrder("fail", o)
    \/ MarkFailedUpdate("fail")
    \/ ExpireOldOrders("sweep")
    \/ Tick(1, MaxTimeOrders)

SpecOrders == InitOrders /\ [][NextOrders]_vars

\* The provider delivers the confirmation again only after the previous
\* delivery was answered.
DeliverInTurn(t, o) ==
    /\ \A d \in Deliveries \ {t} : Startable(d)
    /\ CompleteGetOrder(t, o, ConfirmedAmount)

\* One order paid by a confirmation that is delivered twice, in sequence.
NextRetry ==
    \/ \E u \in Users, m \in OrderMonths : CreateOrderCheck("buy1", u, "standard", m)
    \/ CreateOrderCancelPending("buy1")
    \/ CreateOrderInsert("buy1")
    \/ \E t \in Deliveries, o \in ConfirmedOrders : DeliverInTurn(t, o)
    \/ DeliverySteps
    \/ ExpireOldOrders("sweep")
    \/ Tick(1, MaxTimeOrders)

SpecRetry == InitOrders /\ [][NextRetry]_vars

\* The account u1 with the order it has placed: standard, one month, pending.
InitPending ==
    /\ clock = 0
    /\ db = [subscriptions |-> ("u1" :> NewSubscription(1, FreeTrial)),
             ai_processing_operations |-> <<LedgerRow(1, 30, TRUE)>>,
             orders |-> <<NewOrder("u1", "standard", 1)>>, payments |-> <<>>]
    /\ work = db
    /\ lock = None
    /\ task = [t \in Tasks |-> Idle]

\* The provider repeats a confirmation that was not answered with success
Redeliver(t) ==
    /\ t \in Deliveries /\ task[t].pc = "done" /\ task[t].res # "ok"
    /\ Len(db.payments) < MaxDeliveries
    /\ UNCHANGED <<clock, db, work, lock>>
    /\ task' = [task EXCEPT ![t] = Idle]

\* One order and its confirmation, delivered in sequence until a delivery is
\* answered with success.
NextRedeliver ==
    \/ \E t \in Deliveries, o \in ConfirmedOrders : DeliverInTurn(t, o)
    \/ DeliverySteps
    \/ \E t \in Deliveries : Redeliver(t)

\* A step of a delivery in which its statement succeeds
DeliveryProgress ==
    \E t \in Deliveries :
        \/ CompleteCreatePayment(t) /\ task'[t].pc = "paid_read"
        \/ MarkPaidUpdate(t) /\ task'[t].pc = "activate"
        \/ ActivateUpdate(t) /\ lock' = t
        \/ ActivateCommit(t) /\ task'[t].pc = "act_insert"

\* Every request that has started runs to its end, the provider goes on
\* delivering, and no statement fails for ever.
SpecRedeliver ==
    /\ InitPending /\ [][NextRedeliver]_vars
    /\ WF_vars(DeliverySteps)
    /\ WF_vars(\E t \in Deliveries, o \in ConfirmedOrders : DeliverInTurn(t, o))
    /\ WF_vars(\E t \in Deliveries : Redeliver(t))
    /\ SF_vars(DeliveryProgress)

\* Two requests of the same account placing orders at the same time.
NextCheckout ==
    \/ \E t \in Buyers, u \in Users, p \in PaidPlans, m \in OrderMonths :
            CreateOrderCheck(t, u, p, m)
    \/ \E t \in Buyers : CreateOrderCancelPending(t)
    \/ \E t \in Buyers : CreateOrderInsert(t)
    \/ \E o \in 1..MaxOrders : CancelGetOrder("cancel", o)
    \/ CancelUpdate("cancel")
    \/ ExpireOldOrders("sweep")
    \/ Tick(1, MaxTimeOrders)

SpecCheckout == InitOrders /\ [][NextCheckout]_vars

\* Two spend(u1, 1) calls against the trial subscription of u1 once 29 of its
\* 30 credits are spent: balance 1, ledger +30 and -29.
InitRace ==
    /\ clock = 0
    /\ db = [subscriptions |->
                ("u1" :> [NewSubscription(1, FreeTrial) EXCEPT !.ai_processing = 1]),
             ai_processing_operations |->
                <<LedgerRow(1, 30, TRUE), LedgerRow(1, 29, FALSE)>>,
             orders |-> <<>>, payments |-> <<>>]
    /\ work = db
    /\ lock = None
    /\ task = [t \in Tasks |-> Idle]

NextRace ==
    \/ \E t \in Spenders : task[t].pc = "idle" /\ SpendFetch(t, "u1", 1)
    \/ \E t \in Spenders : SpendInsert(t)
    \/ \E t \in Spenders : SpendUpdate(t)
    \/ \E t \in Spenders : SpendCommit(t)
    \/ TickDay

SpecRace == InitRace /\ [][NextRace]_vars

\* The amounts a caller of mark_order_paid may report for order 1
ReportedAmounts == {0, ConfirmedAmount, ConfirmedAmount + 1}

\* mark_order_paid called on its own, with any amount, on the orders of one buyer.
NextMarkPaid ==
    \/ \E u \in Users, m \in OrderMonths : CreateOrderCheck("buy1", u, "standard", m)
    \/ CreateOrderCancelPending("buy1")
    \/ CreateOrderInsert("buy1")
    \/ \E t \in Payers, o \in 1..MaxOrders, a \in ReportedAmounts : MarkPaidDirect(t, o, a)
    \/ \E t \in Payers : MarkPaidUpdate(t)
    \/ \E o \in 1..MaxOrders : CancelGetOrder("cancel", o)
    \/ CancelUpdate("cancel")
    \/ ExpireOldOrders("sweep")
    \/ Tick(1, MaxTimeOrders)

SpecMarkPaid == InitOrders /\ [][NextMarkPaid]_vars

\* Orders placed by an account whose subscription is activated and expires.
NextPlanChange ==
    \/ \E t \in Shoppers, u \in Users, p \in PaidPlans, m \in OrderMonths :
            CreateOrderCheck(t, u, p, m)
    \/ \E t \in Shoppers : CreateOrderCancelPending(t)
    \/ \E t \in Shoppers : CreateOrderInsert(t)
    \/ \E u \in Users, p \in PaidPlans : AdminActivate("act", u, p, 1)
    \/ ActivateUpdate("act")
    \/ ActivateCommit("act")
    \/ ActivateInsert("act")
    \/ \E u \in Users : CheckActiveRead("chk", u)
    \/ CheckActiveExpire("chk")
    \/ TickPastMonth

SpecPlanChange == InitOrders /\ [][NextPlanChange]_vars

\* calculate_order_amount applied to every plan and every number of months
InitAmount ==
    /\ clock = 0
    /\ db = [subscriptions |-> ("u1" :> NewSubscription(1, FreeTrial)),
             ai_processing_operations |-> <<LedgerRow(1, 30, TRUE)>>,
             orders |-> <<>>, payments |-> <<>>]
    /\ work = db
    /\ lock = None
    /\ \E p \in Plans, m \in 1..MaxMonths :
          task = [t \in Tasks |->
                    IF t \in Shoppers
                      THEN [Idle EXCEPT !.pc = "quote", !.user = "u1", !.plan = p, !.months = m]
                      ELSE Idle]

NextAmount == \E t \in Shoppers : QuoteAmount(t)

SpecAmount == InitAmount /\ [][NextAmount]_vars

\* A subscription that is activated, cancelled, checked and activated again.
NextExtend ==
    \/ \E u \in Users, p \in PaidPlans : AdminActivate("act", u, p, 1)
    \/ ActivateUpdate("act")
    \/ ActivateCommit("act")
    \/ ActivateInsert("act")
    \/ \E u \in Users : UserCancel("unsub", u)
    \/ \E u \in Users : CheckActiveRead("chk", u)
    \/ CheckActiveExpire("chk")
    \/ Tick(TrialDays + 1, MaxTimePlan)

SpecExtend == InitOrders /\ [][NextExtend]_vars

\* An activation of the account while its two spend calls are under way.
NextTopUp ==
    \/ NextRace
    \/ \E u \in Users, p \in PaidPlans : AdminActivate("act", u, p, 1)
    \/ ActivateUpdate("act")
    \/ ActivateCommit("act")
    \/ ActivateInsert("act")

SpecTopUp == InitRace /\ [][NextTopUp]_vars

\* The trial account buys a year of standard and the provider confirms it.
YearlyTerms == {12}

NextUpgrade ==
    \/ \E u \in Users, m \in YearlyTerms : CreateOrderCheck("buy1", u, "standard", m)
    \/ CreateOrderCancelPending("buy1")
    \/ CreateOrderInsert("buy1")
    \/ \E t \in Deliveries, o \in ConfirmedOrders, m \in YearlyTerms :
            /\ \A d \in Deliveries \ {t} : Startable(d)
            /\ CompleteGetOrder(t, o, calculate_order_amount("standard", m))
    \/ DeliverySteps
    \/ Tick(1, MaxTimeOrders)

SpecUpgrade == InitOrders /\ [][NextUpgrade]_vars

\* create_subscription called for any account, new or not, beside its spending.
NextCreate ==
    \/ \E u \in Users, p \in {FreeTrial, "standard"} : CreateInsertOperation("reg", u, p)
    \/ CreateInsertSubscription("reg")
    \/ \E t \in Users1, u \in Users, a \in SpendAmounts : SpendFetch(t, u, a)
    \/ \E t \in Users1 : SpendInsert(t)
    \/ \E t \in Users1 : SpendUpdate(t)
    \/ \E t \in Users1 : SpendCommit(t)
    \/ TickPastTrial

SpecCreate == Init /\ [][NextCreate]_vars

\* A trial from registration to its lazy expiry, day by day.
NextTrial ==
    \/ \E u \in Users : CreateForNewAccount("reg", u, FreeTrial)
    \/ CreateInsertSubscription("reg")
    \/ \E t \in Checkers, u \in Users : CheckActiveRead(t, u)
    \/ \E t \in Checkers : CheckActiveExpire(t)
    \/ \E t \in Users1, u \in Users, a \in SpendAmounts : SpendFetch(t, u, a)
    \/ \E t \in Users1 : SpendInsert(t)
    \/ \E t \in Users1 : SpendUpdate(t)
    \/ \E t \in Users1 : SpendCommit(t)
    \/ Tick(1, MaxTimeSpend)

SpecTrial == Init /\ [][NextTrial]_vars

\* The trial account u1 after one spend of 1.
InitStatus ==
    /\ clock = 0
    /\ db = [subscriptions |->
                ("u1" :> [NewSubscription(1, FreeTrial) EXCEPT !.ai_processing = 29]),
             ai_processing_operations |->
                <<LedgerRow(1, 30, TRUE), LedgerRow(1, 1, FALSE)>>,
             orders |-> <<>>, payments |-> <<>>]
    /\ work = db
    /\ lock = None
    /\ task = [t \in Tasks |-> Idle]

\* Everything that writes a subscription's status, with the scheduler jobs.
\* (Every subscription here has an expiry, so the daily job ends in its loop
\* and never reaches its statements.)
NextStatus ==
    \/ \E u \in Users, p \in PaidPlans : AdminActivate("act", u, p, 1)
    \/ ActivateUpdate("act")
    \/ ActivateCommit("act")
    \/ ActivateInsert("act")
    \/ \E u \in Users : UserCancel("unsub", u)
    \/ \E u \in Users : CheckActiveRead("chk", u)
    \/ CheckActiveExpire("chk")
    \/ DailyFetchSubscriptions("daily")
    \/ DailyFetchUsage("daily")
    \/ RegenerateMonthly("monthly")
    \/ Tick(TrialDays + 1, MaxTimePlan)

SpecStatus == InitStatus /\ [][NextStatus]_vars

-----------------------------------------------------------------------------
(* Properties *)

Balance(u) == db.subscriptions[u].ai_processing
Credits(u) == SumOperations(db.ai_processing_operations, db.subscriptions[u].id, TRUE)
Debits(u) == SumOperations(db.ai_processing_operations, db.subscriptions[u].id, FALSE)

DbFailures == {"InsertFailed", "UpdateFailed", "CommitFailed"}

Quiescent == \A t \in Tasks : Startable(t)

\* C1: whenever no operation is under way, every subscription's balance
\* equals its ledger credits minus its ledger debits.
C1_BalanceMatchesLedger ==
    Quiescent => \A u \in DOMAIN db.subscriptions : Balance(u) = Credits(u) - Debits(u)

\* C2: when both concurrent spend(u1, 1) calls against balance 1 have returned
\* (and the database failed neither), exactly one succeeded, the other was
\* refused for insufficient balance, and the balance is 0.
C2_ExactlyOneSpendSucceeds ==
    (\A t \in Spenders : task[t].pc = "done" /\ task[t].raised \notin DbFailures)
    => /\ \E t \in Spenders :
            /\ task[t].res = "ok"
            /\ \A o \in Spenders \ {t} : task[o].raised = "InsufficientBalance"
       /\ Balance("u1") = 0

\* C3: a spend whose amount exceeds the balance does not get past its check
\* and writes nothing; a spend that returns successfully leaves the balance
\* at zero or above.
C3_SpendNeverOverdraws ==
    [][\A t \in Spenders :
        /\ (Startable(t) /\ task'[t].pc = "spend_insert")
             => /\ task'[t].amount <= Balance(task'[t].user)
                /\ db' = db
        /\ (task[t].pc = "spend_commit" /\ task'[t].res = "ok")
             => \A u \in DOMAIN db'.subscriptions :
                    db'.subscriptions[u].ai_processing >= 0]_vars

\* C4: the caller of spend is told NotFound when there is no subscription,
\* Forbidden when it is not active, InsufficientBalance when the balance is
\* below the amount.
C4_SpendErrorKinds ==
    \A t \in Spenders :
        (task[t].pc = "done"
            /\ task[t].raised \in {"NotFound", "Forbidden", "InsufficientBalance"})
        => task[t].res = task[t].raised

\* C5: the committed debit rows of a subscription add up to exactly what
\* spend has taken off its balance, whatever write failed on the way.
C5_SpendAllOrNothing ==
    \A u \in DOMAIN db.subscriptions :
        Debits(u) = MonthlyRegeneration(FreeTrial) - Balance(u)

\* a spend lost its UPDATE after its INSERT, and another spend went through
C5_Witness ==
    /\ \E t \in Spenders : task[t].raised = "UpdateFailed"
    /\ \E u \in DOMAIN db.subscriptions : Debits(u) > 0

-----------------------------------------------------------------------------
(* Properties of the order lifecycle *)

\* The delivery's call of mark_order_paid returned normally
MarkPaidSucceeded(t) ==
    \/ task[t].pc \in {"activate", "act_update", "act_commit", "act_insert"}
    \/ task[t].pc = "done" /\ task[t].raised \in {None, "NotFound", "InvalidPlan", "CommitFailed"}

\* The delivery's call of mark_order_paid returned or raised
MarkPaidReturned(t) ==
    \/ MarkPaidSucceeded(t)
    \/ task[t].pc = "done"
         /\ task[t].raised \in {"OrderNotFound", "AlreadyPaid", "NotPayable", "AmountMismatch",
                                "DbError"}

Grants == {t \in Deliveries : task[t].granted}

\* C6: of two deliveries made in sequence that both called markPaid on the
\* order, the one after a successful markPaid is refused with AlreadyPaid and
\* grants nothing, so at most one succeeds and the account's balance holds the
\* credits of exactly the grants made, never more than one.
C6_SecondMarkPaidRefused ==
    /\ \A a, b \in Deliveries :
          (a # b /\ MarkPaidSucceeded(a) /\ MarkPaidReturned(b) /\ task[b].raised # "DbError")
              => task[b].raised = "AlreadyPaid" /\ ~task[b].granted
    /\ Cardinality(Grants) <= 1
    /\ Balance("u1") = MonthlyRegeneration(FreeTrial)
                          + Cardinality(Grants) * MonthlyRegeneration("standard")

\* the first delivery paid the order and granted its credits, the second was refused
C6_Witness ==
    \E a, b \in Deliveries :
        /\ task[a].res = "ok" /\ task[a].granted
        /\ task[b].raised = "AlreadyPaid"
        /\ Balance("u1") = 230

\* C7: whatever the interleaving of duplicate deliveries, at most one of them
\* gets through markPaid and at most one grant reaches the account.
C7_AtMostOneGrantPerOrder ==
    /\ Cardinality({t \in Deliveries : MarkPaidSucceeded(t)}) <= 1
    /\ Cardinality(Grants) <= 1

PendingOrders(u) ==
    {o \in 1..Len(db.orders) : db.orders[o].user_id = u /\ db.orders[o].status = "pending"}

\* C8: an account never has two pending orders, also when two createOrder
\* calls of the account run concurrently.
C8_AtMostOnePending ==
    \A u \in Users : Cardinality(PendingOrders(u)) <= 1

\* one createOrder is between its cancel and its insert while the other, started
\* meanwhile, waits to cancel, and the account already has a pending order
C8_Witness ==
    /\ \E a, b \in Buyers : task[a].pc = "order_insert" /\ task[b].pc = "order_cancel"
    /\ PendingOrders("u1") # {}

\* C9: a paid order stays paid in every step.
C9_PaidIsFinal ==
    [][\A o \in 1..Len(db.orders) :
          db.orders[o].status = "paid" => db'.orders[o].status = "paid"]_vars

\* C10: a cancelled or expired order keeps its status in every step.
C10_ClosedIsFinal ==
    [][\A o \in 1..Len(db.orders) :
          db.orders[o].status \in {"cancelled", "expired"}
              => db'.orders[o].status = db.orders[o].status]_vars

-----------------------------------------------------------------------------
(* Properties of mark_order_paid, create_order and the price *)

\* C11: a markPaid on a pending order with an amount other than the order's
\* (0 included) is refused with AmountMismatch and writes nothing.
C11_MismatchRefused ==
    [][\A t \in Payers :
        (/\ Startable(t) /\ task'[t] # task[t]
         /\ OrderExists(db, task'[t].order)
         /\ db.orders[task'[t].order].status = "pending"
         /\ task'[t].amount # db.orders[task'[t].order].amount)
        => (task'[t].raised = "AmountMismatch" /\ db' = db)]_vars

\* The subscription for which the specification refuses an order of `plan`
PlanChangeRefused(d, u, plan) ==
    /\ u \in DOMAIN d.subscriptions
    /\ d.subscriptions[u].status = "active"
    /\ d.subscriptions[u].plan # FreeTrial
    /\ d.subscriptions[u].plan # plan

\* C12: createOrder is refused with PlanChangeUnavailable exactly when the
\* account's subscription is active, on a paid plan, and on another plan than
\* the ordered one; after that subscription has expired the order is accepted.
C12_PlanChangeExactly ==
    [][\A t \in Shoppers :
        (Startable(t) /\ task'[t] # task[t])
        => ((task'[t].raised = "PlanChangeUnavailable")
                <=> PlanChangeRefused(db, task'[t].user, task'[t].plan))]_vars

\* The tier discount in percent, by the number of months
TierPercent(months) ==
    CASE months < 3 -> 0
      [] months \in 3..5 -> 5
      [] months \in 6..11 -> 10
      [] months >= 12 -> 20

UnitPrice(plan) == IF plan \in DOMAIN PRICING THEN PRICING[plan] ELSE 0

\* C13: for every plan and 1..24 months the order amount is
\* unit_price * months less the tier discount (0%, 5%, 10%, 20%).
C13_TieredAmount ==
    \A t \in Shoppers :
        task[t].pc = "quoted"
        => task[t].amount * 100
             = UnitPrice(task[t].plan) * task[t].months * (100 - TierPercent(task[t].months))

\* standard for 12 months is priced 9600
C13_Witness ==
    \E t \in Shoppers :
        /\ task[t].pc = "quoted" /\ task[t].plan = "standard" /\ task[t].months = 12
        /\ task[t].amount = 9600

-----------------------------------------------------------------------------
(* Properties of activate_subscription *)

\* The new expiry as the specification states it
StatedExpiry(sub, months) ==
    IF sub.plan = FreeTrial \/ sub.status = "expired"
      THEN AddMonths(clock, months)
    ELSE IF /\ sub.status = "active" /\ sub.plan # FreeTrial
            /\ sub.expires_at # Null /\ sub.expires_at > clock
      THEN AddMonths(sub.expires_at, months)
    ELSE AddMonths(clock, months)

\* C14: activation computes now + months for a trial or expired subscription,
\* current expiry + months for an active paid one whose expiry is ahead, and
\* now + months otherwise (a cancelled subscription with its expiry ahead too).
C14_NewExpiry ==
    [][(Startable("act") /\ task'["act"].pc = "act_update")
        => task'["act"].new_expires_at
             = StatedExpiry(db.subscriptions[task'["act"].user], task'["act"].months)]_vars

\* C15: the activation's UPDATE sets the balance to the plan's monthly
\* allowance when the balance it finds is negative, and adds the allowance to
\* the balance it finds otherwise.
C15_ResetOrAdd ==
    [][(task["act"].pc = "act_update" /\ lock # "act" /\ lock' = "act")
        => LET u == task["act"].user
               allowance == MonthlyRegeneration(task["act"].plan)
               found == db.subscriptions[u].ai_processing IN
           work'.subscriptions[u].ai_processing
              = IF found < 0 THEN allowance ELSE found + allowance]_vars

\* C16: for a fresh trial subscription, the activation that follows the paid
\* order for 12 months of standard computes the expiry now + 12 months and
\* commits that expiry with a balance of 200.
C16_TrialUpgrade ==
    [][\A t \in Deliveries :
        LET u == task[t].user
            fresh == /\ db.subscriptions[u].plan = FreeTrial
                     /\ db.subscriptions[u].ai_processing = MonthlyRegeneration(FreeTrial) IN
        /\ (task[t].pc = "activate" /\ task'[t].pc = "act_update" /\ fresh)
              => task'[t].new_expires_at = AddMonths(clock, 12)
        /\ (task[t].pc = "act_commit" /\ task'[t].pc = "act_insert" /\ lock = t /\ fresh)
              => /\ db'.subscriptions[u].expires_at = task[t].new_expires_at
                 /\ db'.subscriptions[u].ai_processing = 200]_vars

-----------------------------------------------------------------------------
(* Properties of create_subscription and check_subscription_active *)

\* C17: create for an account that has a subscription commits nothing: no
\* ledger entry, no second subscription row, and the existing row is untouched.
C17_CreateExistingWritesNothing ==
    [][\A u \in DOMAIN db.subscriptions :
        (task'["reg"] # task["reg"]
            /\ (task["reg"].pc = "create_sub" \/ task'["reg"].pc = "create_sub")
            /\ (IF task'["reg"].pc = "create_sub" THEN task'["reg"].user
                                                   ELSE task["reg"].user) = u)
        => db' = db]_vars

\* Days between the creation of u's subscription and the checker's call
Elapsed(t, u) == task[t].now - db.subscriptions[u].started_at

\* C18: a checkActive called fewer than 7 days after the trial was created
\* answers true; one called more than 7 days after it does not, and once it
\* has answered (the database not failing it) the status is expired.
C18_TrialExpiresLazily ==
    \A t \in Checkers :
        LET u == task[t].user IN
        (task[t].pc = "done" /\ u \in DOMAIN db.subscriptions /\ task[t].raised # "NotFound")
        => /\ Elapsed(t, u) < TrialDays => task[t].res = "ok"
           /\ Elapsed(t, u) > TrialDays
                => /\ task[t].res # "ok"
                   /\ task[t].raised # "DbError" => db.subscriptions[u].status = "expired"

\* a check on the eighth day found the trial over and wrote the expiry
C18_Witness ==
    \E t \in Checkers :
        /\ task[t].pc = "done" /\ task[t].raised = "Expired"
        /\ task[t].user \in DOMAIN db.subscriptions
        /\ Elapsed(t, task[t].user) = TrialDays + 1
        /\ db.subscriptions[task[t].user].status = "expired"

\* An account created on a paid plan, its spending, and the daily job run
\* twice on one day.
NextDaily ==
    \/ \E u \in Users, p \in PaidPlans : CreateForNewAccount("reg", u, p)
    \/ CreateInsertSubscription("reg")
    \/ \E t \in Users1, u \in Users, a \in SpendAmounts : SpendFetch(t, u, a)
    \/ \E t \in Users1 : SpendInsert(t)
    \/ \E t \in Users1 : SpendUpdate(t)
    \/ \E t \in Users1 : SpendCommit(t)
    \/ DailyFetchSubscriptions("daily")
    \/ DailyRerun("daily2")
    \/ \E t \in {"daily", "daily2"} : DailyFetchUsage(t)
    \/ \E t \in {"daily", "daily2"} : DailyInsert(t)
    \/ \E t \in {"daily", "daily2"} : DailyUpdate(t)
    \/ \E t \in {"daily", "daily2"} : DailyCommit(t)
    \/ TickDay

SpecDaily == Init /\ [][NextDaily]_vars

\* Accounts on the trial or a paid plan, activations for one or two months,
\* and the monthly job run every third of a month.
NextMonthly ==
    \/ \E u \in Users, p \in {FreeTrial, "standard"} : CreateForNewAccount("reg", u, p)
    \/ CreateInsertSubscription("reg")
    \/ \E u \in Users, p \in PaidPlans, m \in {1, 2} : AdminActivate("act", u, p, m)
    \/ ActivateUpdate("act")
    \/ ActivateCommit("act")
    \/ ActivateInsert("act")
    \/ RegenerateMonthly("monthly")
    \/ Tick(MonthDays \div 3, MaxTimeMonthly)

SpecMonthly == Init /\ [][NextMonthly]_vars

\* An account created on a paid plan, one caller spending, and the daily job
\* beside it.
NextGrant ==
    \/ \E u \in Users, p \in PaidPlans : CreateForNewAccount("reg", u, p)
    \/ CreateInsertSubscription("reg")
    \/ \E u \in Users, a \in SpendAmounts : SpendFetch("sp1", u, a)
    \/ SpendInsert("sp1")
    \/ SpendUpdate("sp1")
    \/ SpendCommit("sp1")
    \/ DailyFetchSubscriptions("daily")
    \/ DailyFetchUsage("daily")
    \/ DailyInsert("daily")
    \/ DailyUpdate("daily")
    \/ DailyCommit("daily")
    \/ TickDay

SpecGrant == Init /\ [][NextGrant]_vars

\* An account created on a paid plan that spends and is cancelled, and the
\* daily job.
NextLapsed ==
    \/ \E u \in Users, p \in PaidPlans : CreateForNewAccount("reg", u, p)
    \/ CreateInsertSubscription("reg")
    \/ \E t \in Users1, u \in Users, a \in SpendAmounts : SpendFetch(t, u, a)
    \/ \E t \in Users1 : SpendInsert(t)
    \/ \E t \in Users1 : SpendUpdate(t)
    \/ \E t \in Users1 : SpendCommit(t)
    \/ \E u \in Users : UserCancel("unsub", u)
    \/ DailyFetchSubscriptions("daily")
    \/ DailyFetchUsage("daily")
    \/ DailyInsert("daily")
    \/ DailyUpdate("daily")
    \/ DailyCommit("daily")
    \/ TickDay

SpecLapsed == Init /\ [][NextLapsed]_vars

-----------------------------------------------------------------------------
(* Properties of the subscription's status and of the daily job *)

\* The transitions of the specification's state machine
StatusStep(old, new) ==
    \/ old = "active" /\ new \in {"expired", "cancelled"}
    \/ old \in {"expired", "cancelled"} /\ new = "active"

\* C19: a subscription's status changes only from active to expired or
\* cancelled and from expired or cancelled to active, and a cancelled
\* subscription is changed by nothing but the commit of an activation.
C19_StatusTransitions ==
    [][\A u \in DOMAIN db.subscriptions :
        LET old == db.subscriptions[u].status
            new == db'.subscriptions[u].status IN
        old # new
        => /\ StatusStep(old, new)
           /\ old = "cancelled" => \E t \in Tasks : task[t].pc = "act_commit" /\ lock = t]_vars

\* A ledger row the daily job wrote: a credit of at most the plan's daily
\* amount (creation and activation credit a month's allowance)
IsDailyCredit(row) ==
    /\ row.is_positive
    /\ \E p \in PaidPlans : row.amount <= DailyRegeneration(p)

\* C20: two runs of the daily job on one day with no spend in between grant
\* a subscription daily credit at most once: two daily credits of one
\* subscription dated the same day have a debit of it between them.
C20_DailyOncePerDay ==
    LET ops == db.ai_processing_operations IN
    \A i, j \in 1..Len(ops) :
        (/\ i < j
         /\ IsDailyCredit(ops[i]) /\ IsDailyCredit(ops[j])
         /\ ops[i].subscription_id = ops[j].subscription_id
         /\ ops[i].created_at = ops[j].created_at)
        => \E k \in (i + 1)..(j - 1) :
               /\ ~ops[k].is_positive
               /\ ops[k].subscription_id = ops[i].subscription_id

\* The grant the specification states for a plan and the debits of the last
\* 24 hours
StatedGrant(plan, usage) ==
    LET d == DailyRegeneration(plan) IN
    IF plan = FreeTrial \/ usage = 0 THEN 0
    ELSE IF usage >= d THEN d
    ELSE d - usage

\* C21: the daily job's loop books for every subscription it read the stated
\* grant: nothing for a trial or when nothing was spent in the last 24 hours,
\* the daily allowance d when the usage u is at least d, and d - u otherwise.
C21_DailyGrantFormula ==
    [][(task["daily"].pc = "daily_usage" /\ task'["daily"] # task["daily"])
       => \A u \in DOMAIN task["daily"].rows :
            LET row == task["daily"].rows[u]
                usage == UsageSince(db.ai_processing_operations, row.id,
                                    task["daily"].now - 1)
                stated == StatedGrant(row.plan, usage) IN
            IF stated = 0
              THEN \A b \in task'["daily"].batch : b.user # u
              ELSE /\ task'["daily"].pc = "daily_insert"
                   /\ [user |-> u, increment_value |-> stated] \in task'["daily"].batch]_vars

\* C22: a run of the daily job is all-or-nothing: when it ends, either
\* nothing of it is committed or every ledger row and every balance update
\* of its batch is.
C22_JobAllOrNothing ==
    [][\A t \in {"daily", "daily2"} :
        (task[t].pc = "daily_commit" /\ task'[t].pc # "daily_commit")
        => \/ db' = db
           \/ /\ Len(db'.ai_processing_operations)
                   = Len(db.ai_processing_operations) + Cardinality(task[t].batch)
              /\ \A b \in task[t].batch :
                    db'.subscriptions[b.user].ai_processing
                        = db.subscriptions[b.user].ai_processing + b.increment_value]_vars

\* C23: runs of the monthly job within a month of a subscription's last
\* monthly regeneration credit it at most once: a run leaves a subscription
\* that is not yet due unchanged, and a run that credits one adds the plan's
\* monthly allowance and restarts its period.
C23_MonthlyOncePerMonth ==
    [][task'["monthly"] # task["monthly"]
       => \A u \in DOMAIN db.subscriptions :
            LET old == db.subscriptions[u]
                new == db'.subscriptions[u] IN
            /\ clock < AddMonths(LastRegen(old), 1) => new = old
            /\ new.ai_processing # old.ai_processing
               => /\ new.ai_processing
                       = old.ai_processing + MonthlyRegeneration(old.plan)
                  /\ new.last_monthly_regen = clock]_vars

\* the job has run again within the month after the subscription was created,
\* and the balance is the one the subscription was created with
C23_Witness ==
    \E u \in DOMAIN db.subscriptions :
        LET sub == db.subscriptions[u] IN
        /\ task["monthly"].pc = "idle" /\ task["monthly"].now = clock
        /\ sub.status = "active" /\ sub.plan \in PaidPlans
        /\ sub.expires_at = Null \/ sub.expires_at > clock
        /\ clock > LastRegen(sub) + MonthDays \div 3
        /\ clock < AddMonths(LastRegen(sub), 1)
        /\ sub.ai_processing = MonthlyRegeneration(sub.plan)

\* The grant a run of the daily job holds for an account, 0 when none
BatchGrant(t, u) ==
    IF \E b \in task[t].batch : b.user = u
      THEN (CHOOSE b \in task[t].batch : b.user = u).increment_value
      ELSE 0

\* C24: no balance update of a spend or of a grant is lost: a spend that
\* reports success lowers the committed balance by its amount, a run of the
\* job that commits its balance update raises it by the grant, each on top of
\* whatever the other has committed, and nothing else changes a balance.
C24_NoLostUpdate ==
    [][\A u \in DOMAIN db.subscriptions :
        LET old == db.subscriptions[u].ai_processing
            new == db'.subscriptions[u].ai_processing
            spent == {t \in Spenders : /\ task[t].pc = "spend_commit"
                                       /\ task[t].user = u
                                       /\ task'[t].res = "ok"}
            granted == {t \in {"daily"} : /\ task[t].pc = "daily_commit"
                                          /\ task'[t].pc = "idle"
                                          /\ lock = t /\ lock' = None /\ db' = work
                                          /\ work.subscriptions # db.subscriptions} IN
        /\ \A t \in spent : new = old - task[t].amount
        /\ \A t \in granted : new = old + BatchGrant(t, u)
        /\ new # old => spent \cup granted # {}]_vars

\* the job counted one debit of the day, a second spend of that day was
\* committed before the job's writes, and the balance holds both the second
\* debit and the grant
C24_Witness ==
    /\ "u1" \in DOMAIN db.subscriptions
    /\ db.subscriptions["u1"].plan = "standard"
    /\ Len(db.ai_processing_operations) = 4
    /\ ~db.ai_processing_operations[2].is_positive
    /\ ~db.ai_processing_operations[3].is_positive
    /\ db.ai_processing_operations[3].amount = 1
    /\ db.ai_processing_operations[2].created_at = db.ai_processing_operations[4].created_at
    /\ db.ai_processing_operations[4].is_positive
    /\ db.ai_processing_operations[4].amount = DailyRegeneration("standard") - 1
    /\ db.subscriptions["u1"].ai_processing
          = MonthlyRegeneration("standard") - 2 + DailyRegeneration("standard") - 1
    /\ task["sp1"].pc = "done" /\ task["sp1"].res = "ok"

\* C25: an activation is all-or-nothing: when it ends, its credit is in the
\* ledger exactly if its subscription update is committed.
C25_ActivationAtomic ==
    [][(task["act"].pc = "act_insert" /\ task'["act"].pc # "act_insert")
       => (task["act"].granted
           <=> Len(db'.ai_processing_operations)
                 = Len(db.ai_processing_operations) + 1)]_vars

\* C26: every order that markPaid has marked paid eventually has its
\* activation applied: the account's subscription gets the order's plan, also
\* when the first attempt failed and the confirmation is delivered again.
C26_PaidOrderActivated ==
    \A o \in ConfirmedOrders :
        (OrderExists(db, o) /\ db.orders[o].status = "paid")
        ~> (/\ OrderExists(db, o)
            /\ db.subscriptions[db.orders[o].user_id].plan = db.orders[o].plan)

\* A subscription the monthly job is to credit: active, not expired, and a
\* month or more past its last monthly regeneration
DueForMonthly(sub) ==
    /\ sub.status = "active"
    /\ sub.expires_at = Null \/ sub.expires_at > clock
    /\ clock >= AddMonths(LastRegen(sub), 1)

\* C27: a run of the monthly job credits every active, non-expired
\* subscription that is due with its plan's monthly allowance, so that with a
\* run every day the allowance arrives within a day of becoming due.
C27_DueIsCredited ==
    [][(task'["monthly"] # task["monthly"] /\ task'["monthly"].pc = "idle")
       => \A u \in DOMAIN db.subscriptions :
            DueForMonthly(db.subscriptions[u])
            => db'.subscriptions[u].ai_processing
                 = db.subscriptions[u].ai_processing
                     + MonthlyRegeneration(db.subscriptions[u].plan)]_vars

\* C28: the daily job grants only to subscriptions that are active and not
\* past their expiry: a run that commits a higher balance for a subscription
\* had read that subscription as active and unexpired.
C28_GrantOnlyToActive ==
    [][\A u \in DOMAIN db.subscriptions :
        (/\ task["daily"].pc = "daily_commit"
         /\ task'["daily"].pc = "idle"
         /\ db'.subscriptions[u].ai_processing > db.subscriptions[u].ai_processing)
        => LET row == task["daily"].rows[u] IN
           /\ row.status = "active"
           /\ row.expires_at = Null \/ row.expires_at > task["daily"].now]_vars

\* The credits booked for a subscription: those of its creation and of its
\* activations
AllowanceCredits(sub) ==
    {i \in 1..Len(db.ai_processing_operations) :
        /\ db.ai_processing_operations[i].subscription_id = sub.id
        /\ db.ai_processing_operations[i].is_positive}

C30_ExpiryKeepsRenewal ==
    [][\A u \in DOMAIN db.subscriptions :
        (/\ db.subscriptions[u].status = "active"
         /\ db.subscriptions[u].expires_at # Null
         /\ db.subscriptions[u].expires_at > clock)
        => db'.subscriptions[u].status # "expired"]_vars

====
